---- MODULE Spec2Model ----
(***************************************************************************)
(* Model of the tool adapters of the cookbook notebooks:                   *)
(*   RetrieverTool    (notebooks/en/agents.ipynb)                          *)
(*   SQLExecutorTool  (notebooks/en/enterprise_cookbook_argilla.ipynb)     *)
(*                                                                         *)
(* A Python string is a sequence of symbols; a symbol is one character     *)
(* ("a", "[", "'") or an atomic piece of text that no operation looks      *)
(* inside ("Alan Payne", the document separator).  A Python value is a     *)
(* record [t, s, l]: t is the type tag, s the symbols of a str (the digits *)
(* of an int), l the elements of a list.                                   *)
(***************************************************************************)
EXTENDS Integers, Sequences, FiniteSets, TLC

VARIABLES vectordb, receipts, pc, last, earlier, between, descriptor, instances,
          cells, endpoint, job, argilla

\* the state of the agent and its tools
agent == <<vectordb, receipts, pc, last, earlier, between, descriptor, instances>>

\* the annotation notebook, the inference endpoint of the TGI notebook, the
\* job that checks the notebook names, and the Argilla server
others == <<cells, endpoint, job, argilla>>

vars == <<vectordb, receipts, pc, last, earlier, between, descriptor, instances,
          cells, endpoint, job, argilla>>

-----------------------------------------------------------------------------
(* Bounds of the model *)

MaxLen == 3
MaxList == 2
MaxDocs == 4
MaxLimit == 4
MaxTools == 3
MaxInstructions == 3
MaxRetries == 2
MaxFiles == 2

-----------------------------------------------------------------------------
(* Python values *)

NoneVal == [t |-> "none", s |-> <<>>, l |-> <<>>]

StrVal(chars) == [t |-> "str", s |-> chars, l |-> <<>>]

IntVal(digits) == [t |-> "int", s |-> digits, l |-> <<>>]

ListVal(elems) == [t |-> "list", s |-> <<>>, l |-> elems]

\* bool(v): None, "", [] and 0 are falsy
Truthy(v) ==
    CASE v.t = "none" -> FALSE
      [] v.t = "str"  -> Len(v.s) > 0
      [] v.t = "list" -> Len(v.l) > 0
      [] OTHER        -> v.s # <<"0">>

IsStr(v) == v.t = "str"

\* c in s, for a str s
HasChar(chars, c) == \E i \in 1..Len(chars) : chars[i] = c

RECURSIVE Concat(_)
\* "".join(parts)
Concat(parts) ==
    IF parts = <<>> THEN <<>> ELSE Head(parts) \o Concat(Tail(parts))

RECURSIVE Join(_, _)
\* sep.join(parts)
Join(sep, parts) ==
    IF parts = <<>> THEN <<>>
    ELSE IF Len(parts) = 1 THEN Head(parts)
    ELSE Head(parts) \o sep \o Join(sep, Tail(parts))

\* str.replace(old, new) for a one-character old and new
Replace(chars, old, new) ==
    [i \in 1..Len(chars) |-> IF chars[i] = old THEN new ELSE chars[i]]

\* repr of a str: single quotes unless the text holds ' and no "; the
\* backslash and the chosen quote are escaped
StrRepr(chars) ==
    LET q == IF HasChar(chars, "'") /\ ~HasChar(chars, "\"") THEN "\"" ELSE "'"
        Esc(c) == IF c = "\\" \/ c = q THEN <<"\\", c>> ELSE <<c>>
    IN  <<q>> \o Concat([i \in 1..Len(chars) |-> Esc(chars[i])]) \o <<q>>

RECURSIVE PyRepr(_)
\* repr(v); a list is "[" + ", ".join(repr(x)) + "]"
PyRepr(v) ==
    CASE v.t = "none" -> <<"N", "o", "n", "e">>
      [] v.t = "str"  -> StrRepr(v.s)
      [] v.t = "list" ->
            <<"[">> \o Join(<<",", " ">>, [i \in 1..Len(v.l) |-> PyRepr(v.l[i])])
                    \o <<"]">>
      [] OTHER        -> v.s

\* str(v): the text itself for a str, repr(v) otherwise
PyStr(v) == IF v.t = "str" THEN v.s ELSE PyRepr(v)

-----------------------------------------------------------------------------
(* json.loads, for documents made of arrays, strings and blanks *)

ParseFail == [ok |-> FALSE, v |-> NoneVal, i |-> 0]

ParseOk(v, i) == [ok |-> TRUE, v |-> v, i |-> i]

RECURSIVE SkipWs(_, _)
\* WHITESPACE.match(s, i).end()
SkipWs(s, i) ==
    IF i <= Len(s) /\ s[i] = " " THEN SkipWs(s, i + 1) ELSE i

RECURSIVE ScanString(_, _, _)
\* py_scanstring: s[i] follows the opening quote; acc is the text so far
ScanString(s, i, acc) ==
    IF i > Len(s) THEN ParseFail
    ELSE IF s[i] = "\"" THEN ParseOk(StrVal(acc), i + 1)
    ELSE IF s[i] = "\\"
         THEN IF i + 1 > Len(s) THEN ParseFail
              ELSE IF s[i + 1] \in {"\"", "\\", "/"}
                   THEN ScanString(s, i + 2, Append(acc, s[i + 1]))
                   ELSE ParseFail
    ELSE ScanString(s, i + 1, Append(acc, s[i]))

RECURSIVE ScanOnce(_, _)
RECURSIVE JSONArray(_, _)
RECURSIVE ArrayItems(_, _, _)

\* scan_once: the value that starts at s[i]
ScanOnce(s, i) ==
    IF i > Len(s) THEN ParseFail
    ELSE IF s[i] = "\"" THEN ScanString(s, i + 1, <<>>)
    ELSE IF s[i] = "[" THEN JSONArray(s, i + 1)
    ELSE ParseFail

\* JSONArray: s[i] follows the opening bracket
JSONArray(s, i) ==
    LET j == SkipWs(s, i)
    IN  IF j > Len(s) THEN ParseFail
        ELSE IF s[j] = "]" THEN ParseOk(ListVal(<<>>), j + 1)
        ELSE ArrayItems(s, j, <<>>)

\* the loop of JSONArray: a value, then "]" or "," and the next value
ArrayItems(s, i, acc) ==
    LET r == ScanOnce(s, i)
    IN  IF ~r.ok THEN ParseFail
        ELSE LET j == SkipWs(s, r.i)
                 vals == Append(acc, r.v)
             IN  IF j > Len(s) THEN ParseFail
                 ELSE IF s[j] = "]" THEN ParseOk(ListVal(vals), j + 1)
                 ELSE IF s[j] = "," THEN ArrayItems(s, SkipWs(s, j + 1), vals)
                 ELSE ParseFail

\* json.loads(s): one value, blanks around it, nothing after it
JsonLoads(s) ==
    LET r == ScanOnce(s, SkipWs(s, 1))
    IN  IF r.ok /\ SkipWs(s, r.i) = Len(s) + 1 THEN r ELSE ParseFail

-----------------------------------------------------------------------------
(* Text helpers *)

Digits == <<"0", "1", "2", "3", "4", "5", "6", "7", "8", "9">>

RECURSIVE IntStr(_)
\* str(n) for an int n >= 0
IntStr(n) ==
    IF n < 10 THEN <<Digits[n + 1]>>
    ELSE IntStr(n \div 10) \o <<Digits[(n % 10) + 1]>>

Min(a, b) == IF a <= b THEN a ELSE b

\* seq[:n]
Take(seq, n) == SubSeq(seq, 1, Min(n, Len(seq)))

Reverse(seq) == [i \in 1..Len(seq) |-> seq[Len(seq) + 1 - i]]

-----------------------------------------------------------------------------
(* The vector store wrapped by RetrieverTool *)

\* k of the similarity search
K == 3

\* the i-th chunk of the knowledge base, with the source it came from
Doc(i) == [page_content |-> <<"d">> \o IntStr(i),
           source |-> IF i % 3 = 2 THEN <<"b">> ELSE <<"a">>]

\* the knowledge bases the store may have been built from
Stores == {[i \in 1..n |-> Doc(i)] : n \in 0..MaxDocs}

NoFilter == [on |-> FALSE, source |-> NoneVal]

SourceFilter(v) == [on |-> TRUE, source |-> v]

\* a document passes filter {"source": v} when its source is v, or is in the list v
Matches(doc, filter) ==
    \/ ~filter.on
    \/ /\ filter.source.t = "list"
       /\ \E i \in 1..Len(filter.source.l) :
              filter.source.l[i] = StrVal(doc.source)
    \/ /\ filter.source.t = "str"
       /\ filter.source.s = doc.source

RECURSIVE FilterDocs(_, _)
\* the documents that pass the filter, in their order
FilterDocs(docs, filter) ==
    IF docs = <<>> THEN <<>>
    ELSE IF Matches(Head(docs), filter)
         THEN <<Head(docs)>> \o FilterDocs(Tail(docs), filter)
         ELSE FilterDocs(Tail(docs), filter)

\* the documents by decreasing similarity to the query
Ranked(db, query) ==
    IF Len(query) > 0 /\ query[1] = "r" THEN Reverse(db) ELSE db

\* vectordb.similarity_search(query, filter=filter, k=k)
SimilaritySearch(db, query, filter, k) ==
    Take(FilterDocs(Ranked(db, query), filter), k)

-----------------------------------------------------------------------------
(* RetrieverTool.forward *)

NoDocsMsg == <<"No documents found with this filtering. Try removing the source filter.">>

RetrievedHeader == <<"Retrieved documents:\n\n">>

DocSeparator == <<"\n===Document===\n">>

\* what an invocation did: how it ended, the text returned or the error
\* raised, the external calls in order, the filter given to the search,
\* the error the external call raised ("" when it raised none), and the k
\* given to the search (0 when no search was made)
Outcome(how, err, text, evs, filter, extErr) ==
    [outcome |-> how, error |-> err, result |-> text, events |-> evs,
     filter |-> filter, extError |-> extErr, k |-> 0]

\* an invocation that called similarity_search(query, filter=filter, k=3)
Searched(out) == [out EXCEPT !.k = K]

\* a forward that has lost its assert
QueryAcceptedAny(query) == TRUE

\* assert isinstance(query, str)
QueryAccepted(query) == IsStr(query)

\* a forward that parses the text with its single quotes left in
SourceTextKeepsQuotes(source) ==
    LET wrapped == IF IsStr(source) /\ ~HasChar(PyStr(source), "[")
                   THEN ListVal(<<source>>)
                   ELSE source
    IN  PyStr(wrapped)

\* a forward that wraps every text that does not start a list
SourceTextByFirstChar(source) ==
    LET wrapped == IF IsStr(source) /\ (source.s = <<>> \/ Head(source.s) # "[")
                   THEN ListVal(<<source>>)
                   ELSE source
    IN  Replace(PyStr(wrapped), "'", "\"")

\* the text handed to json.loads: a bare value is wrapped in a list, then
\* every single quote becomes a double quote
SourceText(source) ==
    LET wrapped == IF IsStr(source) /\ ~HasChar(PyStr(source), "[")
                   THEN ListVal(<<source>>)
                   ELSE source
    IN  Replace(PyStr(wrapped), "'", "\"")

\* a forward that catches the parse error and searches every source
ParseSourceIgnoresErrors(source) ==
    IF Truthy(source) /\ JsonLoads(SourceText(source)).ok
    THEN JsonLoads(SourceText(source))
    ELSE ParseOk(NoneVal, 0)

\* lines 240-245: the source as given to the search, or the parse failure
ParseSource(source) ==
    IF Truthy(source) THEN JsonLoads(SourceText(source)) ELSE ParseOk(source, 0)

\* a tool that keeps the filter of the call before and applies it again
\* when no source is given
SearchFilterKept(source) ==
    IF Truthy(source) THEN SourceFilter(source)
    ELSE IF between.tool = "retriever" THEN between.filter
    ELSE NoFilter

\* a forward that searches the first source when none is given
SearchFilterDefaultSource(source) ==
    IF Truthy(source) THEN SourceFilter(source)
    ELSE SourceFilter(ListVal(<<StrVal(<<"a">>)>>))

\* filter=({"source": source} if source else None)
SearchFilter(source) == IF Truthy(source) THEN SourceFilter(source) ELSE NoFilter

\* a forward that searches once to count and once more to fetch
SearchEventsTwice == <<"similarity_search", "similarity_search">>

\* the calls forward makes on the vector store
SearchEvents == <<"similarity_search">>

\* a forward that catches the error of the search and answers "no documents"
SearchFailedFallback(filter) ==
    Outcome("return", "", NoDocsMsg, <<"similarity_search">>, filter, "SearchError")

\* the search raised: nothing catches the error
SearchFailed(filter) ==
    Searched(Outcome("raise", "SearchError", <<>>, SearchEvents, filter, "SearchError"))

\* a forward that puts the separator after every document, the last too
FormatDocsSeparatorAfterEach(docs) ==
    IF Len(docs) = 0 THEN NoDocsMsg
    ELSE RetrievedHeader
         \o Concat([i \in 1..Len(docs) |-> docs[i].page_content \o DocSeparator])

\* a forward that joins the documents with a bare line break
FormatDocsNewlineJoin(docs) ==
    IF Len(docs) = 0 THEN NoDocsMsg
    ELSE RetrievedHeader
         \o Join(<<"\n">>, [i \in 1..Len(docs) |-> docs[i].page_content])

\* a forward without the test for an empty result
FormatDocsNoEmptyCheck(docs) ==
    RetrievedHeader
    \o Join(DocSeparator, [i \in 1..Len(docs) |-> docs[i].page_content])

\* the text returned for the documents found
FormatDocs(docs) ==
    IF Len(docs) = 0 THEN NoDocsMsg
    ELSE RetrievedHeader
         \o Join(DocSeparator, [i \in 1..Len(docs) |-> docs[i].page_content])

\* forward(query, source); searchFails: the similarity search raises
RetrieverForward(query, source, searchFails) ==
    IF ~QueryAccepted(query)
    THEN Outcome("raise", "AssertionError", <<>>, <<>>, NoFilter, "")
    ELSE LET parsed == ParseSource(source)
         IN  IF ~parsed.ok
             THEN Outcome("raise", "JSONDecodeError", <<>>, <<>>, NoFilter, "")
             ELSE LET filter == SearchFilter(parsed.v)
                  IN  IF searchFails THEN SearchFailed(filter)
                      ELSE Searched(Outcome("return", "",
                               FormatDocs(SimilaritySearch(vectordb, query.s, filter, K)),
                               SearchEvents, filter, ""))

-----------------------------------------------------------------------------
(* The receipts table and the SQL engine behind SQLExecutorTool *)

\* a column value: n is the number (a Float in hundredths), s the text
IntCell(n) == [t |-> "int", n |-> n, s |-> <<>>]

FloatCell(hundredths) == [t |-> "float", n |-> hundredths, s |-> <<>>]

StrCell(text) == [t |-> "str", n |-> 0, s |-> <<text>>]

Columns == <<"receipt_id", "customer_name", "price", "tip">>

\* the rows inserted into receipts
SeedRows ==
    << <<IntCell(1), StrCell("Alan Payne"), FloatCell(1206), FloatCell(120)>>,
       <<IntCell(2), StrCell("Alex Mason"), FloatCell(2386), FloatCell(24)>>,
       <<IntCell(3), StrCell("Woodrow Wilson"), FloatCell(5343), FloatCell(543)>>,
       <<IntCell(4), StrCell("Margaret James"), FloatCell(2111), FloatCell(100)>> >>

ColumnIndex(name) == CHOOSE i \in 1..Len(Columns) : Columns[i] = name

IsColumn(name) == \E i \in 1..Len(Columns) : Columns[i] = name

IsDigit(tok) == \E d \in 1..Len(Digits) : Digits[d] = tok

DigitValue(tok) == (CHOOSE d \in 1..Len(Digits) : Digits[d] = tok) - 1

SqlFail == [ok |-> FALSE, cols |-> <<>>, order |-> 0, desc |-> FALSE, limit |-> -1]

\* the select list: "*" or names separated by commas
SelectList(toks) ==
    IF toks = <<"*">> THEN [ok |-> TRUE, cols |-> [i \in 1..Len(Columns) |-> i]]
    ELSE IF /\ Len(toks) % 2 = 1
            /\ \A i \in 1..Len(toks) :
                  IF i % 2 = 1 THEN IsColumn(toks[i]) ELSE toks[i] = ","
         THEN [ok |-> TRUE,
               cols |-> [i \in 1..((Len(toks) + 1) \div 2) |-> ColumnIndex(toks[2 * i - 1])]]
         ELSE [ok |-> FALSE, cols |-> <<>>]

\* what follows the table name: [ORDER BY column [DESC]] [LIMIT n]
Clauses(toks) ==
    LET hasOrder == Len(toks) >= 3 /\ toks[1] = "ORDER" /\ toks[2] = "BY"
                    /\ IsColumn(toks[3])
        desc == hasOrder /\ Len(toks) >= 4 /\ toks[4] = "DESC"
        used == IF desc THEN 4 ELSE IF hasOrder THEN 3 ELSE 0
        rest == SubSeq(toks, used + 1, Len(toks))
        hasLimit == Len(rest) = 2 /\ rest[1] = "LIMIT" /\ IsDigit(rest[2])
    IN  IF rest = <<>> \/ hasLimit
        THEN [ok |-> TRUE,
              order |-> IF hasOrder THEN ColumnIndex(toks[3]) ELSE 0,
              desc |-> desc,
              limit |-> IF hasLimit THEN DigitValue(rest[2]) ELSE -1]
        ELSE [ok |-> FALSE, order |-> 0, desc |-> FALSE, limit |-> -1]

\* the statement as the engine understands it, or a syntax error
ParseSelect(q) ==
    LET froms == {i \in 1..Len(q) : q[i] \in {"FROM", "from"}}
    IN  IF Len(q) < 4 \/ q[1] # "SELECT" \/ froms = {} THEN SqlFail
        ELSE LET f == CHOOSE i \in froms : \A j \in froms : i <= j
                 sel == SelectList(SubSeq(q, 2, f - 1))
                 cl == Clauses(SubSeq(q, f + 2, Len(q)))
             IN  IF f + 1 > Len(q) \/ q[f + 1] # "receipts" \/ ~sel.ok \/ ~cl.ok
                 THEN SqlFail
                 ELSE [ok |-> TRUE, cols |-> sel.cols, order |-> cl.order,
                       desc |-> cl.desc, limit |-> cl.limit]

RECURSIVE InsertSorted(_, _, _, _)
\* row put into the sorted rows, after the rows that compare equal to it
InsertSorted(rows, row, col, desc) ==
    IF rows = <<>> THEN <<row>>
    ELSE IF (IF desc THEN Head(rows)[col].n < row[col].n
                     ELSE Head(rows)[col].n > row[col].n)
         THEN <<row>> \o rows
         ELSE <<Head(rows)>> \o InsertSorted(Tail(rows), row, col, desc)

RECURSIVE OrderBy(_, _, _)
\* ORDER BY a numeric column
OrderBy(rows, col, desc) ==
    IF rows = <<>> THEN <<>>
    ELSE InsertSorted(OrderBy(SubSeq(rows, 1, Len(rows) - 1), col, desc),
                      rows[Len(rows)], col, desc)

\* the result set of a parsed SELECT over the table
ResultSet(table, stmt) ==
    LET ordered == IF stmt.order = 0 THEN table
                   ELSE OrderBy(table, stmt.order, stmt.desc)
        limited == IF stmt.limit < 0 THEN ordered ELSE Take(ordered, stmt.limit)
    IN  [r \in 1..Len(limited) |->
            [c \in 1..Len(stmt.cols) |-> limited[r][stmt.cols[c]]]]

-----------------------------------------------------------------------------
(* SQLExecutorTool.forward *)

\* repr of a float with at most two decimals
FloatRepr(hundredths) ==
    LET frac == hundredths % 100
    IN  IntStr(hundredths \div 100) \o <<".">>
        \o (IF frac % 10 = 0 THEN IntStr(frac \div 10)
            ELSE IntStr(frac \div 10) \o IntStr(frac % 10))

CellRepr(cell) ==
    CASE cell.t = "int"   -> IntStr(cell.n)
      [] cell.t = "float" -> FloatRepr(cell.n)
      [] OTHER            -> StrRepr(cell.s)

\* str(row): the row as a tuple
RowStr(row) ==
    <<"(">> \o Join(<<",", " ">>, [i \in 1..Len(row) |-> CellRepr(row[i])])
            \o (IF Len(row) = 1 THEN <<",">> ELSE <<>>) \o <<")">>

\* a forward that answers with a message when there is no row
RowsOutputNoRowsMessage(rows) ==
    IF Len(rows) = 0 THEN <<"No results.">>
    ELSE Concat([i \in 1..Len(rows) |-> <<"\n">> \o RowStr(rows[i])])

\* a loop that forgets the line break: output += str(row)
RowsOutputNoNewline(rows) ==
    Concat([i \in 1..Len(rows) |-> RowStr(rows[i])])

\* a loop that starts at the second row
RowsOutputSkipsFirst(rows) ==
    Concat([i \in 1..(Len(rows) - 1) |-> <<"\n">> \o RowStr(rows[i + 1])])

\* a forward whose output is kept between calls instead of starting empty
RowsOutputAccumulated(rows) ==
    last.result \o Concat([i \in 1..Len(rows) |-> <<"\n">> \o RowStr(rows[i])])

\* the loop over the rows: output += "\n" + str(row)
RowsOutput(rows) ==
    Concat([i \in 1..Len(rows) |-> <<"\n">> \o RowStr(rows[i])])

\* the calls forward makes on the engine: the with block opens a connection
\* and closes it on the way out; executed: con.execute was reached
SqlEvents(executed) ==
    IF executed THEN <<"connect", "execute", "close">> ELSE <<"connect", "close">>

\* a forward that opens the connection without a with block, so that an
\* error of the engine leaves it open
ExecuteFailedLeavesOpen ==
    [outcome |-> "raise", error |-> "OperationalError", result |-> <<>>,
     events |-> <<"connect", "execute">>,
     filter |-> [on |-> FALSE, source |-> NoneVal],
     extError |-> "OperationalError", k |-> 0]

\* the engine raised in con.execute or while the rows were fetched: nothing
\* catches the error, and output, a local of forward, is lost
ExecuteFailed ==
    Outcome("raise", "OperationalError", <<>>, SqlEvents(TRUE), NoFilter,
            "OperationalError")

\* forward(query); fault: "none", or the engine fails in "execute" or while
\* the rows are fetched ("fetch").  text(query) raises TypeError for a query
\* that is no str, inside the with block.
SQLForward(query, fault) ==
    IF ~IsStr(query)
    THEN Outcome("raise", "TypeError", <<>>, SqlEvents(FALSE), NoFilter, "")
    ELSE LET stmt == ParseSelect(query.s)
         IN  IF ~stmt.ok \/ fault # "none" THEN ExecuteFailed
             ELSE Outcome("return", "", RowsOutput(ResultSet(receipts, stmt)),
                          SqlEvents(TRUE), NoFilter, "")

-----------------------------------------------------------------------------
(* The arguments the agent may pass *)

\* a letter, the brackets and the quote that forward replaces
Alphabet == {"a", "[", "]", "'"}

\* every text of at most MaxLen characters
SourceTexts == UNION {[1..n -> Alphabet] : n \in 0..MaxLen}

SourceNames == {StrVal(<<"a">>), StrVal(<<"b">>)}

\* every list of at most MaxList source names
SourceLists == {ListVal(l) : l \in UNION {[1..n -> SourceNames] : n \in 0..MaxList}}

\* json.dumps of a list of names without quotes or backslashes
JsonDumps(v) ==
    <<"[">> \o Join(<<",", " ">>,
                    [i \in 1..Len(v.l) |-> <<"\"">> \o v.l[i].s \o <<"\"">>])
            \o <<"]">>

Sources ==
    {NoneVal} \cup {StrVal(t) : t \in SourceTexts} \cup SourceLists
    \cup {StrVal(PyStr(v)) : v \in SourceLists}
    \cup {StrVal(JsonDumps(v)) : v \in SourceLists}

NonStrings == {NoneVal, IntVal(<<"7">>)}

Queries == {StrVal(<<"q">>), StrVal(<<"r">>)} \cup NonStrings

SelectAll == <<"SELECT", "*", "from", "receipts">>

SelectTopPrice ==
    <<"SELECT", "customer_name", ",", "price", "FROM", "receipts",
      "ORDER", "BY", "price", "DESC", "LIMIT", "1">>

SqlTexts ==
    {SelectAll, SelectTopPrice,
     <<"SELECT", "customer_name", "FROM", "receipts">>,
     <<"SELEC", "*", "FROM", "receipts">>,
     <<"SELECT", "*", "FROM", "invoices">>}
    \cup {<<"SELECT", "*", "FROM", "receipts", "LIMIT", Digits[n + 1]>> :
             n \in 0..MaxLimit}
    \cup {<<"SELECT", "receipt_id", ",", "tip", "FROM", "receipts",
            "ORDER", "BY", "tip", "LIMIT", Digits[n + 1]>> : n \in 0..MaxLimit}

SqlQueries == {StrVal(q) : q \in SqlTexts} \cup NonStrings

SqlFaults == {"none", "execute", "fetch"}

-----------------------------------------------------------------------------
(* The annotation notebook: the instructions are formatted with the chat     *)
(* template of each model, then sent to the API of each model                *)

models_to_compare ==
    <<"mistralai/Mixtral-8x7B-Instruct-v0.1", "meta-llama/Meta-Llama-3-70B-Instruct">>

\* tokenizer.apply_chat_template of the tokenizer of a model, for one user
\* message and add_generation_prompt=True
ApplyChatTemplate(tokenizer, content) ==
    IF tokenizer = "mistralai/Mixtral-8x7B-Instruct-v0.1"
    THEN <<"<s>[INST] ">> \o content \o <<" [/INST]">>
    ELSE <<"<|begin_of_text|><|start_header_id|>user<|end_header_id|>\n\n">>
         \o content
         \o <<"<|eot_id|><|start_header_id|>assistant<|end_header_id|>\n\n">>

\* format_prompt(prompt, tokenizer); the tokenizer is named by its model
format_prompt(prompt, tokenizer) == ApplyChatTemplate(tokenizer, prompt)

ApiUrl(model) == <<"https://api-inference.huggingface.co/models/", model>>

\* d.update({key: value})
DictUpdate(d, key, value) ==
    [k \in DOMAIN d \cup {key} |-> IF k = key THEN value ELSE d[k]]

Instructions == {<<"Write a Python function named get_value">>, <<"Write a Python function">>}

\* instructions_lst: the instruction column of the sample
InstructionLists == UNION {[1..n -> Instructions] : n \in 0..MaxInstructions}

\* the names of the notebook when the cell of format_prompt starts; cell is
\* the cell that runs, at the index of the model its loop is at, inloop
\* whether the body of that loop has started
CellsStart(instructions) ==
    [cell |-> "format", at |-> 1, inloop |-> FALSE,
     instructions_lst |-> instructions,
     prompt_formatted |-> <<>>, prompts_formatted_dic |-> <<>>,
     output_lst |-> <<>>, output_dic |-> <<>>, posted |-> <<>>]

CellsNotRun == [CellsStart(<<>>) EXCEPT !.cell = "none"]

-----------------------------------------------------------------------------
(* The TGI notebook: an inference endpoint is created, waited for, queried   *)
(* through four clients, and paused                                          *)

\* the env of custom_image
EndpointEnv ==
    [MAX_INPUT_LENGTH |-> <<"4", "0", "9", "6">>,
     MAX_BATCH_PREFILL_TOKENS |-> <<"4", "0", "9", "6">>,
     MAX_TOTAL_TOKENS |-> <<"3", "2", "0", "0", "0">>,
     MAX_BATCH_TOTAL_TOKENS |-> <<"1", "0", "2", "4", "0", "0", "0">>]

\* context_window=4096 of OpenAILike
ContextWindow == 4096

\* no endpoint yet; cell is the cell that runs next, waited whether
\* endpoint.wait() has returned, requests what was sent to the endpoint with
\* the status the endpoint had then, context_window that of the LlamaIndex
\* client (0 before the client is made)
NoEndpoint ==
    [status |-> "none", cell |-> "none", waited |-> FALSE, env |-> EndpointEnv,
     context_window |-> 0, requests |-> <<>>]

\* a wait that returns whatever the status
WaitDoneAtOnce(status) == status # "none"

\* endpoint.wait() returns once the endpoint runs
WaitDone(status) == status = "running"

\* n requests of a client, each stamped with the status of the endpoint
Sent(client, n) == [i \in 1..n |-> [client |-> client, status |-> endpoint.status]]

-----------------------------------------------------------------------------
(* The job that checks that the notebook names are lowercase *)

UpperLetters ==
    {"A", "B", "C", "D", "E", "F", "G", "H", "I", "J", "K", "L", "M",
     "N", "O", "P", "Q", "R", "S", "T", "U", "V", "W", "X", "Y", "Z"}

DotIpynb == <<".", "i", "p", "y", "n", "b">>

\* what lies under notebooks/: kind "f" is a regular file, "d" a directory;
\* dir is the directory it lies in (empty for notebooks/ itself)
Entries ==
    [dir : {<<>>, <<"e", "n">>, <<"E", "N">>},
     name : {stem \o ext : stem \in {<<"a">>, <<"B">>},
                           ext \in {DotIpynb, <<".", "I", "P", "Y", "N", "B">>,
                                    <<".", "m", "d">>}},
     kind : {"f", "d"}]

RECURSIVE TreesUpTo(_)
\* every set of at most n entries
TreesUpTo(n) ==
    IF n = 0 THEN {{}}
    ELSE LET smaller == TreesUpTo(n - 1)
         IN  smaller \cup {tree \cup {e} : tree \in smaller, e \in Entries}

Trees == TreesUpTo(MaxFiles)

\* the path find prints for an entry
Path(e) == <<".", "/">> \o (IF e.dir = <<>> THEN <<>> ELSE e.dir \o <<"/">>) \o e.name

\* basename {}
Basename(e) == e.name

\* -type f -name '*.ipynb'
FindMatches(e) ==
    /\ e.kind = "f"
    /\ Len(e.name) >= Len(DotIpynb)
    /\ SubSeq(e.name, Len(e.name) - Len(DotIpynb) + 1, Len(e.name)) = DotIpynb

\* grep '[A-Z]' on one line
GrepUpper(line) == \E i \in 1..Len(line) : line[i] \in UpperLetters

\* a job that greps the paths that find prints
GrepLinePath(e) == Path(e)

\* the line that reaches grep for a file that find matched
GrepLine(e) == Basename(e)

NoJob == [step |-> "none", tree |-> {}, files |-> {}, stdout |-> <<>>, exit |-> 0]

-----------------------------------------------------------------------------
(* The Argilla server and the cell that sets up the dataset *)

dataset_argilla_name == "code-llm"

workspace_name == "argilla"

NoDataset == [name |-> "", workspace |-> "", settings |-> "", made |-> ""]

\* a dataset on the server; made tells a dataset made by the cell from one
\* that was there before
Dataset(name, workspace, settings, made) ==
    [name |-> name, workspace |-> workspace, settings |-> settings, made |-> made]

\* what may be on the server before the cell: per name and workspace no
\* dataset, one with other settings, or one with the settings of the cell
\* (left by an earlier run)
DatasetKeys == {dataset_argilla_name, "other"} \X {workspace_name, "admin"}

Servers ==
    {{Dataset(key[1], key[2], held[key], "before") :
         key \in {k \in DatasetKeys : held[k] # "absent"}} :
     held \in [DatasetKeys -> {"absent", "old settings", "settings"}]}

\* client.datasets(name, workspace=workspace): the dataset, or None
ClientDatasets(server, name, workspace) ==
    IF \E d \in server : d.name = name /\ d.workspace = workspace
    THEN CHOOSE d \in server : d.name = name /\ d.workspace = workspace
    ELSE NoDataset

\* a cell that never deletes
ExistsNever(found) == FALSE

\* client.datasets(...) is not None
Exists(found) == found # NoDataset

\* the names of the cell before it runs; before is the server as the cell
\* found it, log the deletions and creations the cell has made
NoArgilla ==
    [step |-> "none", reuse_existing_dataset |-> FALSE, server |-> {},
     before |-> {}, dataset_argilla |-> NoDataset, log |-> <<>>]

\* none of the other notebooks runs
OthersNotRun ==
    /\ cells = CellsNotRun
    /\ endpoint = NoEndpoint
    /\ job = NoJob
    /\ argilla = NoArgilla

-----------------------------------------------------------------------------
(* The tool classes.  name, description, inputs and output_type are class    *)
(* attributes; an instance of RetrieverTool holds self.vectordb only, and    *)
(* reads the other attributes from its class.                                *)

RetrieverClass ==
    [name |-> "retriever",
     description |-> <<"Retrieves some documents from the knowledge base that have the closest embeddings to the input query.">>,
     inputs |->
        [query |-> [type |-> "text",
                    description |-> <<"The query to perform. This should be semantically close to your target documents. Use the affirmative form rather than a question.">>],
         source |-> [type |-> "text", description |-> <<>>]],
     output_type |-> "text"]

SQLExecutorClass ==
    [name |-> "sql_engine",
     description |-> <<"Allows you to perform SQL queries on the table. Returns a string representation of the result.\nThe table is named 'receipts'. Its description is as follows: \n", "table_description">>,
     inputs |->
        [query |-> [type |-> "text",
                    description |-> <<"The query to perform. This should be correct SQL.">>]],
     output_type |-> "text"]

ClassDefinitions == [retriever |-> RetrieverClass, sql_engine |-> SQLExecutorClass]

\* the f-string of __init__
Describe(all_sources) ==
    <<"The source of the documents to search, as a str representation of a list. Possible values in the list are: ">>
    \o PyStr(all_sources)
    \o <<". If this argument is not provided, all sources will be searched.">>

RECURSIVE Distinct(_)
\* the elements of a sequence, each once
Distinct(seq) ==
    IF seq = <<>> THEN <<>>
    ELSE LET rest == Distinct(SubSeq(seq, 1, Len(seq) - 1))
             x == seq[Len(seq)]
         IN  IF \E i \in 1..Len(rest) : rest[i] = x THEN rest ELSE Append(rest, x)

\* all_sources = list(set(...)): the sources of the documents, each once
\* (the order of a set is arbitrary; the model takes the order of appearance)
AllSources(db) == ListVal(Distinct([i \in 1..Len(db) |-> StrVal(db[i].source)]))

\* RetrieverTool(vectordb, all_sources): self.inputs is the dict of the class,
\* so the assignment of __init__ writes into the class
ConstructRetriever(all_sources) ==
    /\ instances' = Append(instances, [vectordb |-> "vectordb"])
    /\ descriptor' = [descriptor EXCEPT
                         !.retriever.inputs.source.description = Describe(all_sources)]

\* inputs["source"]["description"] as read through instance i, or through the
\* class (i = 0): no instance has an inputs of its own
SourceDescription(i) == descriptor.retriever.inputs.source.description

\* a forward that writes what it parsed into the inputs of its class
ForwardRewritesInputs ==
    /\ descriptor' = [descriptor EXCEPT
                         !.retriever.inputs.source.description = last'.result]
    /\ UNCHANGED instances

\* forward assigns no attribute of self and no attribute of its class
ForwardKeeps == UNCHANGED <<descriptor, instances>>

-----------------------------------------------------------------------------
(* The agent's run: it invokes a tool, may invoke it again with the same     *)
(* arguments, and reads the result before its next step                      *)

NoCall ==
    [tool |-> "none", query |-> NoneVal, source |-> NoneVal, again |-> FALSE]
    @@ Outcome("none", "", <<>>, <<>>, NoFilter, "")

Invocation(tool, query, source, again, out) ==
    [tool |-> tool, query |-> query, source |-> source, again |-> again] @@ out

Init ==
    /\ vectordb \in Stores
    /\ receipts = SeedRows
    /\ pc = "idle"
    /\ last = NoCall
    /\ earlier = FALSE
    /\ between = NoCall
    /\ descriptor = [ClassDefinitions EXCEPT
                        !.retriever.inputs.source.description =
                            Describe(AllSources(vectordb))]
    /\ instances = <<[vectordb |-> "vectordb"]>>
    /\ OthersNotRun

\* retriever(query=..., source=...)
Retrieve ==
    \E query \in Queries, source \in Sources, searchFails \in BOOLEAN :
        /\ pc = "idle"
        /\ last' = Invocation("retriever", query, source, FALSE,
                              RetrieverForward(query, source, searchFails))
        /\ pc' = "done"
        /\ ForwardKeeps
        /\ UNCHANGED <<vectordb, receipts, earlier, between>>
        /\ UNCHANGED others

\* sql_engine(query=...)
ExecuteSQL ==
    \E query \in SqlQueries, fault \in SqlFaults :
        /\ pc = "idle"
        /\ last' = Invocation("sql_engine", query, NoneVal, FALSE,
                              SQLForward(query, fault))
        /\ pc' = "done"
        /\ ForwardKeeps
        /\ UNCHANGED <<vectordb, receipts, earlier, between>>
        /\ UNCHANGED others

\* the same tool called once more with the arguments of the call before
Reinvoke ==
    /\ pc = "done"
    /\ \/ /\ last.tool = "retriever"
          /\ \E searchFails \in BOOLEAN :
                last' = Invocation("retriever", last.query, last.source, TRUE,
                           RetrieverForward(last.query, last.source, searchFails))
       \/ /\ last.tool = "sql_engine"
          /\ \E fault \in SqlFaults :
                last' = Invocation("sql_engine", last.query, NoneVal, TRUE,
                                   SQLForward(last.query, fault))
    /\ ForwardKeeps
    /\ UNCHANGED <<vectordb, receipts, pc, earlier, between>>
    /\ UNCHANGED others

\* the calls around which another call is interleaved
InterleavedSources ==
    {NoneVal, StrVal(<<"a">>), ListVal(<<StrVal(<<"b">>)>>), StrVal(<<"[", "a">>)}

InterleavedSql == {StrVal(SelectAll), StrVal(SelectTopPrice)}

Interleavable(call) ==
    \/ call.tool = "retriever" /\ call.source \in InterleavedSources
    \/ call.tool = "sql_engine" /\ call.query \in InterleavedSql \cup NonStrings

\* another call is made before the call of last is repeated
CallBetween ==
    /\ pc = "done"
    /\ between = NoCall
    /\ Interleavable(last)
    /\ \/ \E source \in InterleavedSources :
              between' = Invocation("retriever", StrVal(<<"q">>), source, FALSE,
                                    RetrieverForward(StrVal(<<"q">>), source, FALSE))
       \/ \E query \in InterleavedSql :
              between' = Invocation("sql_engine", query, NoneVal, FALSE,
                                    SQLForward(query, "none"))
    /\ ForwardKeeps
    /\ UNCHANGED <<vectordb, receipts, pc, last, earlier>>
    /\ UNCHANGED others

\* the agent reads the observation and plans its next step
Observe ==
    /\ pc = "done"
    /\ pc' = "idle"
    /\ last' = NoCall
    /\ between' = NoCall
    /\ earlier' = TRUE
    /\ UNCHANGED <<vectordb, receipts, descriptor, instances>>
    /\ UNCHANGED others

Next == Retrieve \/ ExecuteSQL \/ Reinvoke \/ CallBetween \/ Observe

Spec == Init /\ [][Next]_vars

\* the notebook before any tool is made: the classes are as defined
InitTools ==
    /\ vectordb \in Stores
    /\ receipts = SeedRows
    /\ pc = "setup"
    /\ last = NoCall
    /\ earlier = FALSE
    /\ between = NoCall
    /\ descriptor = ClassDefinitions
    /\ instances = <<>>
    /\ OthersNotRun

\* one more RetrieverTool is constructed
Construct ==
    \E all_sources \in SourceLists :
        /\ pc = "setup"
        /\ Len(instances) < MaxTools
        /\ ConstructRetriever(all_sources)
        /\ UNCHANGED <<vectordb, receipts, pc, last, earlier, between>>
        /\ UNCHANGED others

NextTools == Construct

SpecTools == InitTools /\ [][NextTools]_vars

-----------------------------------------------------------------------------
(* The run of the annotation notebook *)

\* no agent runs
AgentIdle ==
    /\ vectordb = <<>>
    /\ receipts = SeedRows
    /\ pc = "setup"
    /\ last = NoCall
    /\ earlier = FALSE
    /\ between = NoCall
    /\ descriptor = ClassDefinitions
    /\ instances = <<>>

InitAnnotate ==
    /\ AgentIdle
    /\ \E instructions \in InstructionLists : cells = CellsStart(instructions)
    /\ endpoint = NoEndpoint
    /\ job = NoJob
    /\ argilla = NoArgilla

\* for model in models_to_compare: tokenizer = ...; prompt_formatted = []
FormatModel ==
    /\ cells.cell = "format" /\ ~cells.inloop
    /\ cells' = [cells EXCEPT !.inloop = TRUE, !.prompt_formatted = <<>>]
    /\ UNCHANGED <<agent, endpoint, job, argilla>>

\* prompt_formatted.append(format_prompt(instruction, tokenizer))
FormatInstruction ==
    /\ cells.cell = "format" /\ cells.inloop
    /\ Len(cells.prompt_formatted) < Len(cells.instructions_lst)
    /\ LET instruction == cells.instructions_lst[Len(cells.prompt_formatted) + 1]
           tokenizer == models_to_compare[cells.at]
       IN  cells' = [cells EXCEPT !.prompt_formatted =
                        Append(@, format_prompt(instruction, tokenizer))]
    /\ UNCHANGED <<agent, endpoint, job, argilla>>

\* prompts_formatted_dic.update({model: prompt_formatted}), then the next
\* model, or the next cell after the last model
FormatUpdate ==
    /\ cells.cell = "format" /\ cells.inloop
    /\ Len(cells.prompt_formatted) = Len(cells.instructions_lst)
    /\ LET model == models_to_compare[cells.at]
           more == cells.at < Len(models_to_compare)
       IN  cells' = [cells EXCEPT
                       !.prompts_formatted_dic =
                           DictUpdate(@, model, cells.prompt_formatted),
                       !.inloop = FALSE,
                       !.at = IF more THEN @ + 1 ELSE 1,
                       !.cell = IF more THEN @ ELSE "query"]
    /\ UNCHANGED <<agent, endpoint, job, argilla>>

\* for model in models_to_compare: api_url = ...; output_lst = []
QueryModel ==
    /\ cells.cell = "query" /\ ~cells.inloop
    /\ cells' = [cells EXCEPT !.inloop = TRUE, !.output_lst = <<>>]
    /\ UNCHANGED <<agent, endpoint, job, argilla>>

\* for prompt in tqdm(prompt_formatted): query(payload, api_url), and the
\* generated text is appended to output_lst
QueryPrompt ==
    /\ cells.cell = "query" /\ cells.inloop
    /\ Len(cells.output_lst) < Len(cells.prompt_formatted)
    /\ LET prompt == cells.prompt_formatted[Len(cells.output_lst) + 1]
           api_url == ApiUrl(models_to_compare[cells.at])
       IN  cells' = [cells EXCEPT
                       !.posted = Append(@, [api_url |-> api_url, inputs |-> prompt]),
                       !.output_lst = Append(@, <<"generated_text">>)]
    /\ UNCHANGED <<agent, endpoint, job, argilla>>

\* output_dic.update({model: output_lst}), then the next model
QueryUpdate ==
    /\ cells.cell = "query" /\ cells.inloop
    /\ Len(cells.output_lst) = Len(cells.prompt_formatted)
    /\ LET model == models_to_compare[cells.at]
           more == cells.at < Len(models_to_compare)
       IN  cells' = [cells EXCEPT
                       !.output_dic = DictUpdate(@, model, cells.output_lst),
                       !.inloop = FALSE,
                       !.at = IF more THEN @ + 1 ELSE 1,
                       !.cell = IF more THEN @ ELSE "stored"]
    /\ UNCHANGED <<agent, endpoint, job, argilla>>

NextAnnotate ==
    \/ FormatModel \/ FormatInstruction \/ FormatUpdate
    \/ QueryModel \/ QueryPrompt \/ QueryUpdate

SpecAnnotate == InitAnnotate /\ [][NextAnnotate]_vars

-----------------------------------------------------------------------------
(* The run of the TGI notebook *)

InitTGI ==
    /\ AgentIdle
    /\ cells = CellsNotRun
    /\ endpoint = [NoEndpoint EXCEPT !.cell = "create"]
    /\ job = NoJob
    /\ argilla = NoArgilla

\* endpoint = create_inference_endpoint(...)
CreateEndpoint ==
    /\ endpoint.cell = "create"
    /\ endpoint' = [endpoint EXCEPT !.status = "pending", !.cell = "wait"]
    /\ UNCHANGED <<agent, cells, job, argilla>>

\* the service brings the endpoint up, or fails to
Provision ==
    /\ \/ endpoint.status = "pending"
          /\ endpoint' = [endpoint EXCEPT !.status = "initializing"]
       \/ endpoint.status = "initializing"
          /\ endpoint' = [endpoint EXCEPT !.status = "running"]
       \/ endpoint.status \in {"pending", "initializing"}
          /\ endpoint' = [endpoint EXCEPT !.status = "failed"]
    /\ UNCHANGED <<agent, cells, job, argilla>>

\* endpoint.wait() returns
WaitReturns ==
    /\ endpoint.cell = "wait"
    /\ WaitDone(endpoint.status)
    /\ endpoint' = [endpoint EXCEPT !.waited = TRUE, !.cell = "openai"]
    /\ UNCHANGED <<agent, cells, job, argilla>>

\* endpoint.wait() raises for a failed endpoint and the notebook stops
WaitRaises ==
    /\ endpoint.cell = "wait"
    /\ endpoint.status = "failed"
    /\ endpoint' = [endpoint EXCEPT !.cell = "stopped"]
    /\ UNCHANGED <<agent, cells, job, argilla>>

\* client.chat.completions.create(...); the client may retry a request
OpenAIChat ==
    /\ endpoint.cell = "openai"
    /\ \E n \in 1..(1 + MaxRetries) :
          endpoint' = [endpoint EXCEPT !.requests = @ \o Sent("openai", n),
                                       !.cell = "langchain"]
    /\ UNCHANGED <<agent, cells, job, argilla>>

\* llm = ChatOpenAI(...); llm.invoke(...)
LangChainInvoke ==
    /\ endpoint.cell = "langchain"
    /\ \E n \in 1..(1 + MaxRetries) :
          endpoint' = [endpoint EXCEPT !.requests = @ \o Sent("langchain", n),
                                       !.cell = "rag"]
    /\ UNCHANGED <<agent, cells, job, argilla>>

\* rag_chain_with_source.invoke(...)
RagChainInvoke ==
    /\ endpoint.cell = "rag"
    /\ \E n \in 1..(1 + MaxRetries) :
          endpoint' = [endpoint EXCEPT !.requests = @ \o Sent("langchain", n),
                                       !.cell = "llamaindex"]
    /\ UNCHANGED <<agent, cells, job, argilla>>

\* llm = OpenAILike(..., context_window=4096); llm.complete(...)
LlamaIndexComplete ==
    /\ endpoint.cell = "llamaindex"
    /\ \E n \in 1..(1 + MaxRetries) :
          endpoint' = [endpoint EXCEPT !.context_window = ContextWindow,
                                       !.requests = @ \o Sent("llamaindex", n),
                                       !.cell = "citation"]
    /\ UNCHANGED <<agent, cells, job, argilla>>

\* query_engine.query(...): the engine is built without llm=, so it may not
\* reach the endpoint at all
CitationQuery ==
    /\ endpoint.cell = "citation"
    /\ \E n \in 0..(1 + MaxRetries) :
          endpoint' = [endpoint EXCEPT !.requests = @ \o Sent("llamaindex", n),
                                       !.cell = "pause"]
    /\ UNCHANGED <<agent, cells, job, argilla>>

\* endpoint.pause()
PauseEndpoint ==
    /\ endpoint.cell = "pause"
    /\ endpoint' = [endpoint EXCEPT !.status = "paused", !.cell = "end"]
    /\ UNCHANGED <<agent, cells, job, argilla>>

NextTGI ==
    \/ CreateEndpoint \/ Provision \/ WaitReturns \/ WaitRaises
    \/ OpenAIChat \/ LangChainInvoke \/ RagChainInvoke \/ LlamaIndexComplete
    \/ CitationQuery \/ PauseEndpoint

SpecTGI == InitTGI /\ [][NextTGI]_vars

-----------------------------------------------------------------------------
(* The run of the job check-lowercase *)

InitJob ==
    /\ AgentIdle
    /\ cells = CellsNotRun
    /\ endpoint = NoEndpoint
    /\ \E tree \in Trees : job = [NoJob EXCEPT !.step = "find", !.tree = tree]
    /\ argilla = NoArgilla

\* files=$(find . -type f -name '*.ipynb' -exec basename {} \; | grep '[A-Z]' || true)
FindFiles ==
    /\ job.step = "find"
    /\ job' = [job EXCEPT
                  !.files = {e \in job.tree : FindMatches(e) /\ GrepUpper(GrepLine(e))},
                  !.step = "test"]
    /\ UNCHANGED <<agent, cells, endpoint, argilla>>

\* if [ -n "$files" ]: the names are listed and the job fails
ReportUppercase ==
    /\ job.step = "test"
    /\ job.files # {}
    /\ job' = [job EXCEPT
                  !.stdout = <<<<"The following files are not lowercase:">>,
                               {GrepLine(e) : e \in job.files}>>,
                  !.exit = 1,
                  !.step = "end"]
    /\ UNCHANGED <<agent, cells, endpoint, argilla>>

\* else: the job succeeds
ReportLowercase ==
    /\ job.step = "test"
    /\ job.files = {}
    /\ job' = [job EXCEPT
                  !.stdout = <<<<"All filenames are lowercase.">>>>,
                  !.step = "end"]
    /\ UNCHANGED <<agent, cells, endpoint, argilla>>

NextJob == FindFiles \/ ReportUppercase \/ ReportLowercase

SpecJob == InitJob /\ [][NextJob]_vars

-----------------------------------------------------------------------------
(* The run of the cell that sets up the Argilla dataset *)

InitDataset ==
    /\ AgentIdle
    /\ cells = CellsNotRun
    /\ endpoint = NoEndpoint
    /\ job = NoJob
    /\ \E server \in Servers, reuse \in BOOLEAN :
          argilla = [NoArgilla EXCEPT !.step = "start",
                                      !.reuse_existing_dataset = reuse,
                                      !.server = server,
                                      !.before = server]

\* if reuse_existing_dataset: dataset_argilla = client.datasets(...)
ReuseDataset ==
    /\ argilla.step = "start"
    /\ argilla.reuse_existing_dataset
    /\ argilla' = [argilla EXCEPT
                      !.dataset_argilla =
                          ClientDatasets(argilla.server, dataset_argilla_name,
                                         workspace_name),
                      !.step = "end"]
    /\ UNCHANGED <<agent, cells, endpoint, job>>

\* else: dataset_argilla = rg.Dataset(name, settings, workspace), not yet on
\* the server
BuildDataset ==
    /\ argilla.step = "start"
    /\ ~argilla.reuse_existing_dataset
    /\ argilla' = [argilla EXCEPT
                      !.dataset_argilla =
                          Dataset(dataset_argilla_name, workspace_name, "settings",
                                  "local"),
                      !.step = "check"]
    /\ UNCHANGED <<agent, cells, endpoint, job>>

\* if client.datasets(...) is not None: client.datasets(...).delete()
DeleteExisting ==
    /\ argilla.step = "check"
    /\ LET found == ClientDatasets(argilla.server, dataset_argilla_name,
                                   workspace_name)
       IN  /\ Exists(found)
           /\ argilla' = [argilla EXCEPT !.server = @ \ {found},
                                          !.log = Append(@, "delete"),
                                          !.step = "create"]
    /\ UNCHANGED <<agent, cells, endpoint, job>>

\* the test finds None: nothing to delete
NothingToDelete ==
    /\ argilla.step = "check"
    /\ ~Exists(ClientDatasets(argilla.server, dataset_argilla_name, workspace_name))
    /\ argilla' = [argilla EXCEPT !.step = "create"]
    /\ UNCHANGED <<agent, cells, endpoint, job>>

\* dataset_argilla = dataset_argilla.create(); the server refuses a name
\* that its workspace holds already
CreateDataset ==
    /\ argilla.step = "create"
    /\ LET made == [argilla.dataset_argilla EXCEPT !.made = "cell"]
           taken == \E d \in argilla.server :
                        d.name = made.name /\ d.workspace = made.workspace
       IN  argilla' = IF taken
                      THEN [argilla EXCEPT !.step = "failed"]
                      ELSE [argilla EXCEPT !.server = @ \cup {made},
                                           !.dataset_argilla = made,
                                           !.log = Append(@, "create"),
                                           !.step = "end"]
    /\ UNCHANGED <<agent, cells, endpoint, job>>

NextDataset ==
    \/ ReuseDataset \/ BuildDataset \/ DeleteExisting \/ NothingToDelete
    \/ CreateDataset

SpecDataset == InitDataset /\ [][NextDataset]_vars

-----------------------------------------------------------------------------
(* Reading a returned text *)

RECURSIVE SplitOn(_, _)
\* text.split(sym) for a one-symbol separator
SplitOn(text, sym) ==
    IF \A i \in 1..Len(text) : text[i] # sym THEN <<text>>
    ELSE LET i == CHOOSE k \in 1..Len(text) :
                      text[k] = sym /\ \A j \in 1..(k - 1) : text[j] # sym
         IN  <<SubSeq(text, 1, i - 1)>> \o SplitOn(SubSeq(text, i + 1, Len(text)), sym)

RECURSIVE DropEmpty(_)
DropEmpty(pieces) ==
    IF pieces = <<>> THEN <<>>
    ELSE IF Head(pieces) = <<>> THEN DropEmpty(Tail(pieces))
    ELSE <<Head(pieces)>> \o DropEmpty(Tail(pieces))

\* the lines of a text that hold something
NonEmptyLines(text) == DropEmpty(SplitOn(text, "\n"))

\* how many times call occurs among the external calls of an invocation
Count(events, call) == Cardinality({i \in 1..Len(events) : events[i] = call})

\* text[i .. i+Len(piece)-1] = piece for some i
Contains(text, piece) ==
    \E i \in 1..(Len(text) - Len(piece) + 1) :
        SubSeq(text, i, i + Len(piece) - 1) = piece

-----------------------------------------------------------------------------
(* Claims *)

\* C1: a retriever call with a str query and no source filter (the source
\* omitted, or empty) that returns gives either the fixed "no documents"
\* text or a text of exactly k blocks separated by the document separator,
\* k = min(3, documents in the store)
C1_NoFilterBlocks ==
    (last.tool = "retriever" /\ IsStr(last.query) /\ ~Truthy(last.source)
        /\ last.outcome = "return")
    => \/ last.result = NoDocsMsg
       \/ Len(SplitOn(last.result, DocSeparator[1]))
             = Min(K, Len(FilterDocs(vectordb, NoFilter)))

\* a store of more than three documents searched without a filter
C1_Witness ==
    /\ last.tool = "retriever" /\ last.source = NoneVal /\ last.outcome = "return"
    /\ Len(vectordb) > K
    /\ Len(SplitOn(last.result, DocSeparator[1])) = K

\* C2: a retriever call whose query is no str raises the assertion error and
\* makes no external call, whatever the source
C2_NonStringQueryRejected ==
    (last.tool = "retriever" /\ ~IsStr(last.query))
    => /\ last.outcome = "raise"
       /\ last.error = "AssertionError"
       /\ last.events = <<>>

\* a query that is no str together with a source that does not parse
C2_Witness ==
    /\ last.tool = "retriever" /\ last.query = IntVal(<<"7">>)
    /\ last.source = StrVal(<<"[">>)
    /\ last.outcome = "raise"

\* C3: a sql_engine call whose query is no str raises before any external
\* call: no connection is opened and no statement is executed
C3_SqlRejectsBeforeConnect ==
    (last.tool = "sql_engine" /\ ~IsStr(last.query))
    => /\ last.outcome = "raise"
       /\ last.events = <<>>

\* a source that names one source: a text that does not start as a list does
IsScalarSource(v) ==
    /\ IsStr(v) /\ Len(v.s) > 0
    /\ v.s[1] = "a"
    /\ \A i \in 1..Len(v.s) : v.s[i] \in {"a", "[", "]"}

\* C4: for a scalar source s, forward(query, s) searches with the filter [s]
\* and ends as forward(query, [s]) and forward(query, str([s])) end
C4_ScalarAsOneElementList ==
    (last.tool = "retriever" /\ IsStr(last.query) /\ IsScalarSource(last.source)
        /\ last.extError = "")
    => LET one == ListVal(<<last.source>>)
       IN  /\ last.outcome = "return"
           /\ last.filter = SourceFilter(one)
           /\ RetrieverForward(last.query, one, FALSE)
                 = RetrieverForward(last.query, last.source, FALSE)
           /\ RetrieverForward(last.query, StrVal(PyStr(one)), FALSE)
                 = RetrieverForward(last.query, last.source, FALSE)

\* C5: a sql_engine call that returns has, as the lines of its text, the
\* str of each row of the result set, in the order of the result set
C5_OneLinePerRow ==
    (last.tool = "sql_engine" /\ last.outcome = "return")
    => LET rows == ResultSet(receipts, ParseSelect(last.query.s))
       IN  NonEmptyLines(last.result) = [i \in 1..Len(rows) |-> RowStr(rows[i])]

\* a read query with several rows
C5_Witness ==
    /\ last.tool = "sql_engine" /\ last.outcome = "return"
    /\ Len(NonEmptyLines(last.result)) >= 2

C6_SameOutput ==
    (last'.again /\ last.outcome = "return" /\ last'.outcome = "return")
    => last'.result = last.result

C7_TopPrice ==
    (last.tool = "sql_engine" /\ last.query = StrVal(SelectTopPrice)
        /\ receipts = SeedRows /\ last.outcome = "return")
    => /\ Contains(last.result,
                   <<"(", "'", "Woodrow Wilson", "'", ",", " ",
                     "5", "3", ".", "4", "3", ")">>)
       /\ Len(NonEmptyLines(last.result)) = 1

C7_Witness ==
    /\ last.tool = "sql_engine" /\ last.query = StrVal(SelectTopPrice)
    /\ last.outcome = "return"
    /\ receipts = SeedRows

\* C8: with a str query and a source that parses, a search that finds no
\* document makes forward return the fixed "no documents" text, and a
\* search that finds at least one never gives that text
C8_EmptyResultIsNormal ==
    (last.tool = "retriever" /\ IsStr(last.query) /\ ParseSource(last.source).ok
        /\ last.extError = "")
    => LET docs == SimilaritySearch(vectordb, last.query.s,
                       SearchFilter(ParseSource(last.source).v), K)
       IN  /\ last.outcome = "return"
           /\ Len(docs) = 0 => last.result = NoDocsMsg
           /\ Len(docs) > 0 => last.result # NoDocsMsg

\* a filter that no document of a store with documents passes
C8_Witness ==
    /\ last.tool = "retriever" /\ last.outcome = "return"
    /\ last.filter.on /\ Len(vectordb) > 0
    /\ last.result = NoDocsMsg

\* C9: no invocation makes an external call twice, and one that returns has
\* made exactly one: one similarity search, or one statement on one connection
C9_OneExternalCall ==
    last.tool # "none"
    => /\ Count(last.events, "similarity_search") <= 1
       /\ Count(last.events, "connect") <= 1
       /\ Count(last.events, "execute") <= 1
       /\ last.outcome = "return"
             => IF last.tool = "retriever"
                THEN last.events = <<"similarity_search">>
                ELSE /\ Count(last.events, "connect") = 1
                     /\ Count(last.events, "execute") = 1
                     /\ Count(last.events, "similarity_search") = 0

C9_Witness ==
    /\ last.tool = "retriever" /\ last.outcome = "return"
    /\ last.filter.on /\ last.result # NoDocsMsg

\* C10: when the external call fails, the invocation raises that error:
\* the call was made once, no text is returned
C10_ExternalErrorPropagates ==
    last.extError # ""
    => /\ last.outcome = "raise"
       /\ last.error = last.extError
       /\ last.result = <<>>
       /\ Count(last.events, "similarity_search") + Count(last.events, "execute") = 1

\* a query the engine rejects
C10_Witness ==
    /\ last.tool = "sql_engine"
    /\ last.query = StrVal(<<"SELEC", "*", "FROM", "receipts">>)
    /\ last.outcome = "raise" /\ last.error = "OperationalError"

\* C11: a string query with a non-empty source string whose text, after the
\* bare value is wrapped and the quotes are replaced, is not a JSON document:
\* the parse error is raised out of forward and no search is made
C11_MalformedSourceRaises ==
    (/\ last.tool = "retriever"
     /\ IsStr(last.query)
     /\ IsStr(last.source)
     /\ Truthy(last.source)
     /\ ~JsonLoads(SourceText(last.source)).ok)
    => (/\ last.outcome = "raise"
        /\ last.error = "JSONDecodeError"
        /\ Count(last.events, "similarity_search") = 0)

\* forward("q", "[a") has raised
C11_Witness ==
    /\ last.tool = "retriever"
    /\ last.query = StrVal(<<"q">>)
    /\ last.source = StrVal(<<"[", "a">>)
    /\ last.outcome = "raise"
    /\ last.error = "JSONDecodeError"

\* C12: a string query with the source omitted: the one search forward
\* makes has filter=None and k=3, and what it returns is made of the first
\* three documents of the whole store, whatever their source
C12_OmittedSourceSearchesAll ==
    (last.tool = "retriever" /\ IsStr(last.query) /\ last.source = NoneVal)
    => (/\ last.events = <<"similarity_search">>
        /\ last.filter = NoFilter
        /\ last.k = 3
        /\ (last.outcome = "return"
            => last.result = FormatDocs(Take(Ranked(vectordb, last.query.s), 3))))

\* forward("q") has returned documents of a store that holds source "b" too
C12_Witness ==
    /\ last.tool = "retriever"
    /\ last.query = StrVal(<<"q">>)
    /\ last.source = NoneVal
    /\ last.outcome = "return"
    /\ last.k = 3
    /\ last.result # NoDocsMsg
    /\ \E i \in 1..Len(vectordb) : vectordb[i].source = "b"

\* C13: a call A repeated after another call B gives what A gave before B,
\* for either tool and whatever ran earlier, as long as the external
\* resource answers the same way both times
C13_SameAfterOther ==
    (/\ last'.again
     /\ between.tool # "none"
     /\ between' = between
     /\ last'.extError = last.extError)
    => (/\ last'.outcome = last.outcome
        /\ last'.error = last.error
        /\ last'.result = last.result)

C14_DescriptionKept ==
    (Len(instances) >= 1 /\ Len(instances') = Len(instances) + 1)
    => descriptor'.retriever.inputs.source.description = SourceDescription(1)

C14_ConstructionKeepsDescription == [][C14_DescriptionKept]_vars

\* C15: an invocation of either forward, whether it returns or raises, leaves
\* name, description, inputs and output_type of both tools and the handle
\* held by the instance as they were
C15_DescriptorKept ==
    pc' = "done" => (descriptor' = descriptor /\ instances' = instances)

C15_ForwardKeepsDescriptor == [][C15_DescriptorKept]_vars

\* sql_engine has raised, retriever has returned, and both tools still
\* read as they were made
C15_Witness ==
    /\ last.tool = "sql_engine"
    /\ last.outcome = "raise"
    /\ between.tool = "retriever"
    /\ between.outcome = "return"
    /\ earlier
    /\ descriptor.retriever.name = "retriever"
    /\ descriptor.retriever.output_type = "text"
    /\ SourceDescription(1) = Describe(AllSources(vectordb))
    /\ descriptor.sql_engine = SQLExecutorClass
    /\ instances = <<[vectordb |-> "vectordb"]>>

\* C16: the n-th prompt posted to the API URL of a model is the n-th
\* instruction formatted with the tokenizer of that model, which is what
\* prompts_formatted_dic holds for the model
C16_PostedPromptOfModel ==
    \A k \in 1..Len(cells.posted) : \A m \in 1..Len(models_to_compare) :
        LET model == models_to_compare[m]
            n == Cardinality({j \in 1..k : cells.posted[j].api_url = ApiUrl(model)})
        IN  cells.posted[k].api_url = ApiUrl(model)
            => (/\ cells.posted[k].inputs
                      = format_prompt(cells.instructions_lst[n], model)
                /\ cells.posted[k].inputs = cells.prompts_formatted_dic[model][n])

\* C17: a request is sent to the endpoint only once endpoint.wait() has
\* returned with the endpoint running and before endpoint.pause(): never
\* while the endpoint starts, never after it is paused
C17_RequestWhileRunning ==
    endpoint'.requests # endpoint.requests
    => (/\ endpoint.waited
        /\ endpoint.status = "running"
        /\ endpoint.cell \notin {"create", "wait", "end", "stopped"}
        /\ \A i \in 1..Len(endpoint'.requests) :
              endpoint'.requests[i].status = "running")

C17_RequestsBetweenWaitAndPause == [][C17_RequestWhileRunning]_vars

\* the endpoint is paused after every client has sent its requests
C17_Witness ==
    /\ endpoint.status = "paused"
    /\ endpoint.cell = "end"
    /\ Len(endpoint.requests) >= 4
    /\ \E i \in 1..Len(endpoint.requests) : endpoint.requests[i].client = "llamaindex"

\* C18: the context_window given to OpenAILike is the MAX_TOTAL_TOKENS of the
\* env of the endpoint
C18_ContextWindowIsMaxTotalTokens ==
    endpoint.context_window # 0
    => IntStr(endpoint.context_window) = endpoint.env.MAX_TOTAL_TOKENS

\* the regular files under notebooks/ whose name ends in .ipynb and holds a
\* letter from A to Z
UppercaseNotebooks(tree) ==
    {e \in tree :
        /\ e.kind = "f"
        /\ \E stem \in {<<"a">>, <<"B">>} : e.name = stem \o DotIpynb
        /\ \E i \in 1..Len(e.name) : e.name[i] \in UpperLetters}

\* C19: the job fails with exit 1, listing the names, exactly when some
\* *.ipynb file under notebooks/ has a letter A-Z in its file name; else it
\* succeeds and prints "All filenames are lowercase."; directories and
\* files that are no .ipynb never make it fail
C19_FailsOnUppercaseNotebook ==
    job.step = "end"
    => LET bad == UppercaseNotebooks(job.tree)
       IN  /\ job.exit = 1 <=> bad # {}
           /\ job.exit = 1
              => job.stdout = <<<<"The following files are not lowercase:">>,
                                {e.name : e \in bad}>>
           /\ job.exit # 1
              => (job.exit = 0 /\ job.stdout = <<<<"All filenames are lowercase.">>>>)

\* the job has failed for EN/B.ipynb, listed next to a file B.md that is not
C19_Witness ==
    /\ job.step = "end"
    /\ job.exit = 1
    /\ \E e \in job.tree : e.dir = <<"E", "N">> /\ e.name = <<"B">> \o DotIpynb /\ e.kind = "f"
    /\ \E e \in job.tree : e.name = <<"B", ".", "m", "d">>

\* the source is None, the empty string, or its text parses to an empty list
SourceIsEmpty(source) ==
    \/ source = NoneVal
    \/ source = StrVal(<<>>)
    \/ (JsonLoads(SourceText(source)).ok /\ JsonLoads(SourceText(source)).v = ListVal(<<>>))

\* C20: a forward that returns has searched with filter=None exactly when the
\* source is None, the empty string, or parses to an empty list; otherwise
\* with filter={"source": L}, L the list that the source parses to
C20_FilterFromSource ==
    (last.tool = "retriever" /\ last.outcome = "return")
    => (/\ last.filter = NoFilter <=> SourceIsEmpty(last.source)
        /\ ~SourceIsEmpty(last.source)
           => (/\ last.filter.on
               /\ last.filter.source.t = "list"
               /\ last.filter.source = JsonLoads(SourceText(last.source)).v))

\* C21: when the search gives documents d1..dn, 1 <= n <= 3, forward returns
\* the header, then the page_content of d1..dn in the order of the search,
\* each once, with the separator between consecutive documents only
C21_DocumentsInSearchOrder ==
    (last.tool = "retriever" /\ last.outcome = "return")
    => LET docs == SimilaritySearch(vectordb, last.query.s, last.filter, 3)
       IN  (Len(docs) >= 1)
           => (/\ Len(docs) <= 3
               /\ Len(last.result) >= 1
               /\ SubSeq(last.result, 1, 1) = <<"Retrieved documents:\n\n">>
               /\ SplitOn(Tail(last.result), "\n===Document===\n")
                     = [i \in 1..Len(docs) |-> docs[i].page_content])

\* three documents returned in the reverse of the order of the store
C21_Witness ==
    /\ last.tool = "retriever"
    /\ last.outcome = "return"
    /\ last.query = StrVal(<<"r">>)
    /\ Len(vectordb) > 3
    /\ Len(SplitOn(Tail(last.result), "\n===Document===\n")) = 3
    /\ SplitOn(Tail(last.result), "\n===Document===\n")[1]
          = vectordb[Len(vectordb)].page_content

\* C22: a non-empty source string is made a one-element list exactly when it
\* holds no "[": with a "[" anywhere it goes to the JSON parser as it is,
\* quotes replaced, and forward raises or filters by what the parser gives
C22_WrappedUnlessBracket ==
    (/\ last.tool = "retriever"
     /\ IsStr(last.query)
     /\ IsStr(last.source)
     /\ Truthy(last.source))
    => LET bracket == \E i \in 1..Len(last.source.s) : last.source.s[i] = "["
           handed == IF bracket
                     THEN Replace(last.source.s, "'", "\"")
                     ELSE Replace(PyStr(ListVal(<<last.source>>)), "'", "\"")
           parsed == JsonLoads(handed)
       IN  IF parsed.ok
           THEN /\ last.events = <<"similarity_search">>
                /\ last.filter = IF Truthy(parsed.v) THEN SourceFilter(parsed.v)
                                                      ELSE NoFilter
           ELSE /\ last.outcome = "raise"
                /\ last.error = "JSONDecodeError"
                /\ last.events = <<>>

\* the bare value a[ went to the parser unwrapped and forward raised
C22_Witness ==
    /\ last.tool = "retriever"
    /\ last.query = StrVal(<<"r">>)
    /\ last.source = StrVal(<<"a", "[">>)
    /\ last.outcome = "raise"
    /\ last.error = "JSONDecodeError"
    /\ earlier

\* C23: for a list of source names without quotes and brackets, the text
\* with single quotes (str of the list) and the text with double quotes
\* (JSON) both make forward search with that list as the filter, elements in
\* the order written; both search unfiltered when the list is empty
C23_BothEncodingsSameFilter ==
    \A v \in SourceLists :
        (/\ last.tool = "retriever"
         /\ IsStr(last.query)
         /\ last.source \in {StrVal(PyStr(v)), StrVal(JsonDumps(v))})
        => (/\ last.events = <<"similarity_search">>
            /\ last.filter = IF v.l = <<>> THEN NoFilter ELSE SourceFilter(v))

\* forward("q", "['b', 'a']") has searched with the filter list ["b", "a"]
C23_Witness ==
    /\ last.tool = "retriever"
    /\ last.query = StrVal(<<"q">>)
    /\ last.source = StrVal(<<"[", "'", "b", "'", ",", " ", "'", "a", "'", "]">>)
    /\ last.source # StrVal(JsonDumps(ListVal(<<StrVal(<<"b">>), StrVal(<<"a">>)>>)))
    /\ last.outcome = "return"
    /\ last.filter = SourceFilter(ListVal(<<StrVal(<<"b">>), StrVal(<<"a">>)>>))

\* C24: a sql_engine call that returns gives the empty string when the
\* query has no row, and for N >= 1 rows the line break and str(row) of each
\* row one after the other in row order, so the text starts with a line break
C24_EmptyOrNewlineRows ==
    (last.tool = "sql_engine" /\ last.outcome = "return")
    => LET rows == ResultSet(receipts, ParseSelect(last.query.s))
       IN  /\ last.error = ""
           /\ (Len(rows) = 0) => last.result = <<>>
           /\ (Len(rows) >= 1)
              => (/\ last.result[1] = "\n"
                  /\ last.result
                        = Concat([i \in 1..Len(rows) |-> <<"\n">> \o RowStr(rows[i])]))

\* a query with LIMIT 0 has returned the empty string
C24_Witness ==
    /\ last.tool = "sql_engine"
    /\ last.outcome = "return"
    /\ last.query = StrVal(<<"SELECT", "*", "FROM", "receipts", "LIMIT", "0">>)
    /\ last.result = <<>>
    /\ Len(receipts) >= 1

\* connections that the calls of an invocation opened and did not close
OpenConnections(call) == Count(call.events, "connect") - Count(call.events, "close")

\* C25: every connection forward opens is closed when it returns or raises:
\* no invocation of sql_engine, failed ones included, leaves one open
C25_NoConnectionLeftOpen ==
    /\ last.tool = "sql_engine"
       => (Count(last.events, "connect") = 1 /\ OpenConnections(last) = 0)
    /\ between.tool = "sql_engine"
       => (Count(between.events, "connect") = 1 /\ OpenConnections(between) = 0)

\* a call whose query the engine rejected, repeated after another call and
\* after earlier ones
C25_Witness ==
    /\ last.tool = "sql_engine"
    /\ last.outcome = "raise"
    /\ last.error = "OperationalError"
    /\ Count(last.events, "execute") = 1
    /\ last.again
    /\ between.tool = "sql_engine"
    /\ earlier

\* the datasets of a server that have the name and the workspace of the cell
Named(server) ==
    {d \in server : d.name = "code-llm" /\ d.workspace = "argilla"}

\* C26: the cell never fails, and when it is over: with
\* reuse_existing_dataset False a dataset of that name that was there has
\* been deleted before the new one was created, one dataset of that name is
\* there, it is the new one with the settings of the cell, and no other
\* dataset was touched; with reuse_existing_dataset True nothing was deleted
\* or created and dataset_argilla is the dataset that was there
C26_DatasetSetup ==
    /\ argilla.step # "failed"
    /\ argilla.step = "end"
       => IF argilla.reuse_existing_dataset
          THEN /\ argilla.log = <<>>
               /\ argilla.server = argilla.before
               /\ \A d \in Named(argilla.before) : argilla.dataset_argilla = d
          ELSE /\ argilla.log = IF Named(argilla.before) # {}
                                THEN <<"delete", "create">>
                                ELSE <<"create">>
               /\ Cardinality(Named(argilla.server)) = 1
               /\ \A d \in Named(argilla.server) :
                     /\ d.settings = "settings"
                     /\ d.made = "cell"
                     /\ argilla.dataset_argilla = d
               /\ argilla.server \ Named(argilla.server)
                     = argilla.before \ Named(argilla.before)

\* a dataset left by an earlier run was deleted and made anew, next to the
\* datasets of other names and workspaces
C26_Witness ==
    /\ argilla.step = "end"
    /\ ~argilla.reuse_existing_dataset
    /\ argilla.log = <<"delete", "create">>
    /\ \E d \in Named(argilla.before) : d.settings = "settings"
    /\ \A key \in DatasetKeys :
          \E d \in argilla.server : d.name = key[1] /\ d.workspace = key[2]

====
